---- MODULE Spec2Model ----
(***************************************************************************)
(* State-machine model of stormtracks: the track association engine        *)
(* (match.py: Match, match, combined_match), the smoother parameter        *)
(* search (match.py: _cum_dist, _optimize), the task schedule              *)
(* (pyro_task.py) and the downloads (download.py).                         *)
(***************************************************************************)
EXTENDS Integers, Sequences, FiniteSets, TLC

\* ------------------------------------------------------------------ bounds
\* Dates are 1..MaxDate.
MaxDate == 2
\* The dates of the tracks handed to _optimize are 1..MaxOptDate.
MaxOptDate == 6
\* The grid of _optimize has the q_param values 1..MaxQ ...
MaxQ == 2

\* ... and these r_param values, in order.
RParams == <<1, 2>>

\* match() is run once or twice on the same inputs (one output each).
Runs == {1, 2}

\* Identities of the reference (best) track objects and of the candidate
\* (vorticity) track objects handed to match().
BestIds == {1, 2}
VortIds == {1, 2}
\* Positions (lon, lat) a candidate may sit at.
VortPos == {<<0, 0>>, <<60, 80>>, <<200, 0>>}

\* range(num_ensemble_members) of the schedule under study
EnsembleMembers == <<0, 1>>

\* ------------------------------------------------------------------ constants
CUM_DIST_CUTOFF == 100
\* PyroTaskSchedule.__init__: the default first year
start_year == 2000
\* the least recomputed overlap at which _optimize accepts a grid point
MIN_OVERLAP == 6

\* ------------------------------------------------------------------ helpers
\* Python's None, where a tuple may stand
None == <<>>

Abs(n) == IF n < 0 THEN -n ELSE n

Min2(a, b) == IF a < b THEN a ELSE b

Max2(a, b) == IF a > b THEN a ELSE b

\* utils.dist: planar distance between two (lon, lat) points.  The inputs are
\* drawn from points whose mutual distances are whole numbers.
dist(p, q) ==
    LET dx == Abs(p[1] - q[1])
        dy == Abs(p[2] - q[2])
    IN  IF dy = 0 THEN dx
        ELSE CHOOSE r \in Max2(dx, dy)..(dx + dy) : r * r = dx * dx + dy * dy

\* range(lo, hi + 1) as a sequence
Range(lo, hi) == [i \in 1..(IF hi >= lo THEN hi - lo + 1 ELSE 0) |-> lo + i - 1]

\* ------------------------------------------------------------------ inputs
\* A best track over the dates s..e (empty when e < s): parallel sequences
\* dates, lons, lats.  Track b moves between lon 0 and lon 60.
BestTrack(b, s, e) ==
    [dates |-> Range(s, e),
     lons  |-> [i \in 1..Len(Range(s, e)) |-> 60 * ((s + i - 1 + b) % 2)],
     lats  |-> [i \in 1..Len(Range(s, e)) |-> 0]]

BestTrackSet(b) ==
    {BestTrack(b, s, e) : s \in 1..MaxDate, e \in 0..MaxDate}

\* A candidate track over the dates s..e sitting at p: its dates and its
\* date -> position table (vortmax_by_date[date].pos).
VortTrack(p, s, e) ==
    [dates |-> Range(s, e),
     vortmax_by_date |-> [d \in (IF e >= s THEN s..e ELSE {}) |-> p]]

VortTrackSet ==
    {VortTrack(p, s, e) : p \in VortPos, s \in 1..MaxDate, e \in 0..MaxDate}

RECURSIVE SeqOfSet(_)
\* the members of a finite set of integers in ascending order
SeqOfSet(S) ==
    IF S = {} THEN <<>>
    ELSE LET m == CHOOSE x \in S : \A y \in S : x <= y
         IN  <<m>> \o SeqOfSet(S \ {m})

\* The temporal index the caller builds from the candidate tracks:
\* date -> list of the candidates active on that date.
IndexOf(vts) ==
    LET active(d) == {v \in DOMAIN vts : d \in DOMAIN vts[v].vortmax_by_date}
    IN  [d \in {x \in 1..MaxDate : active(x) # {}} |-> SeqOfSet(active(d))]

\* ------------------------------------------------------------------ state
VARIABLES
    best_tracks,          \* match(): list of best tracks
    vort_tracks,          \* the candidate track objects, by identity
    vort_tracks_by_date,  \* match(): dict date -> list of candidates
    heap,                 \* every Match object constructed so far
    matches,              \* match(): the OrderedDict being built
    cursor,               \* match(): position <<best, observation, candidate>>
    run_base,             \* number of Match objects that existed at the call
    outs,                 \* the OrderedDicts returned by match() so far
    all_matches,          \* combined_match(): the collections to search through
    combined_matches,     \* combined_match(): dict best track -> list of Match
    cm_cursor,            \* combined_match(): position <<collection, item>>
    err,                  \* the exception that ended the call, or "none"
    pc,                   \* control state
    best_track,           \* _optimize(): the best track
    vort_track,           \* _optimize(): the candidate track
    baseline_dist,        \* _optimize(): distance of the raw positions
    overlap,              \* _optimize(): overlap returned by the last _cum_dist
    min_d,                \* _optimize(): running minimum
    optimum_param,        \* _optimize(): None or <<q_param, r_param, mode>>
    grid,                 \* _optimize(): next grid point <<q_param, index of r_param>>
    first_seen,           \* history: distance -> <<q_param, r_param, mode>> that
                          \* computed it first
    _schedule,            \* PyroTaskSchedule: year -> list of task statuses
    next_task,            \* what get_next_outstanding returned last
    last_call,            \* history: the last call on the schedule
    TMP_DATA_DIR,         \* settings.TMP_DATA_DIR: a directory, or "" when unset
    filesys,              \* file system: existing directories and files
    dl_idx,               \* download_full_c20(): index of the next url
    dl_last,              \* history: the last call of _download_file
    dl_retrieved          \* history: the paths urlretrieve has written

vars == <<best_tracks, vort_tracks, vort_tracks_by_date, heap, matches,
          cursor, run_base, outs, all_matches, combined_matches, cm_cursor,
          err, pc, best_track, vort_track, baseline_dist, overlap, min_d,
          optimum_param, grid, first_seen, _schedule, next_task, last_call,
          TMP_DATA_DIR, filesys, dl_idx, dl_last, dl_retrieved>>

schedVars == <<_schedule, next_task, last_call>>

dlVars == <<TMP_DATA_DIR, filesys, dl_idx, dl_last, dl_retrieved>>

optVars == <<best_track, vort_track, baseline_dist, overlap, min_d,
             optimum_param, grid, first_seen>>

inputVars == <<best_tracks, vort_tracks, vort_tracks_by_date>>

matchVars == <<heap, matches, cursor, run_base, outs>>

combineVars == <<all_matches, combined_matches, cm_cursor, err>>

\* ------------------------------------------------------------------ parts at rest
\* The state of each part of the program before it is used.
MatchIdle ==
    /\ best_tracks = <<>>
    /\ vort_tracks = <<>>
    /\ vort_tracks_by_date = <<>>
    /\ heap = <<>>
    /\ matches = <<>>
    /\ cursor = <<0, 0, 0>>
    /\ run_base = 0
    /\ outs = <<>>
    /\ all_matches = <<>>
    /\ combined_matches = <<>>
    /\ cm_cursor = <<0, 0>>

OptIdle ==
    /\ best_track = BestTrack(1, 1, 0)
    /\ vort_track = VortTrack(<<0, 0>>, 1, 0)
    /\ baseline_dist = 0
    /\ overlap = 0
    /\ min_d = 0
    /\ optimum_param = None
    /\ grid = <<0, 0>>
    /\ first_seen = <<>>

SchedIdle ==
    /\ _schedule = <<>>
    /\ next_task = None
    /\ last_call = [op |-> "none"]

DownloadIdle ==
    /\ TMP_DATA_DIR = ""
    /\ filesys = [dirs |-> {}, files |-> {}]
    /\ dl_idx = 0
    /\ dl_last = [url |-> "none"]
    /\ dl_retrieved = {}

\* ------------------------------------------------------------------ OrderedDict
\* An OrderedDict is a sequence of [key, value] entries in insertion order.
DictKeys(d) == {d[i].key : i \in DOMAIN d}

DictGet(d, k) == d[CHOOSE i \in DOMAIN d : d[i].key = k].value

\* d[k] = v: a new key is appended, an existing key keeps its place.
DictSet(d, k, v) ==
    IF k \in DictKeys(d)
    THEN [i \in DOMAIN d |-> IF d[i].key = k THEN [key |-> k, value |-> v] ELSE d[i]]
    ELSE Append(d, [key |-> k, value |-> v])

\* ------------------------------------------------------------------ Match
\* Match.__init__ with the overlap count starting at 0
Match_overlap0(b, v) ==
    [best_track      |-> b,
     vort_track      |-> v,
     cum_dist        |-> 0,
     overlap         |-> 0,
     is_too_far_away |-> FALSE,
     overlap_start   |-> Max2(best_tracks[b].dates[1], vort_tracks[v].dates[1]),
     overlap_end     |-> Min2(best_tracks[b].dates[Len(best_tracks[b].dates)],
                              vort_tracks[v].dates[Len(vort_tracks[v].dates)])]

\* Match.__init__
Match(b, v) ==
    [best_track      |-> b,
     vort_track      |-> v,
     cum_dist        |-> 0,
     overlap         |-> 1,
     is_too_far_away |-> FALSE,
     overlap_start   |-> Max2(best_tracks[b].dates[1], vort_tracks[v].dates[1]),
     overlap_end     |-> Min2(best_tracks[b].dates[Len(best_tracks[b].dates)],
                              vort_tracks[v].dates[Len(vort_tracks[v].dates)])]

\* ------------------------------------------------------------------ match()
RECURSIVE Norm(_, _, _)
\* The next position of the three nested loops of match() at or after
\* <<bi, oi, vi>>: a visit <<bi, oi, vi>> with vi >= 1, a date that is not in
\* the index <<bi, oi, 0>>, or the end <<Len(best_tracks) + 1, 0, 0>>.
Norm(bi, oi, vi) ==
    IF bi > Len(best_tracks) THEN <<Len(best_tracks) + 1, 0, 0>>
    ELSE IF oi > Len(best_tracks[bi].dates) THEN Norm(bi + 1, 1, 1)
    ELSE LET date == best_tracks[bi].dates[oi]
         IN  IF date \notin DOMAIN vort_tracks_by_date THEN <<bi, oi, 0>>
             ELSE IF vi > Len(vort_tracks_by_date[date]) THEN Norm(bi, oi + 1, 1)
             ELSE <<bi, oi, vi>>

AtEnd == cursor[1] > Len(best_tracks)

AtVisit == ~AtEnd /\ cursor[3] >= 1

cur_best == cursor[1]

cur_date == best_tracks[cursor[1]].dates[cursor[2]]

cur_pos == <<best_tracks[cursor[1]].lons[cursor[2]], best_tracks[cursor[1]].lats[cursor[2]]>>

cur_vortmax == vort_tracks_by_date[cur_date][cursor[3]]

cur_key == <<cur_best, cur_vortmax>>

cur_dist == dist(vort_tracks[cur_vortmax].vortmax_by_date[cur_date], cur_pos)

\* lines 55-57 with the distance assigned instead of added
Accumulate_assign(m, d) ==
    [m EXCEPT !.cum_dist = d,
              !.is_too_far_away = IF d > CUM_DIST_CUTOFF THEN TRUE ELSE @]

\* lines 55-57 with the cutoff compared by >=
Accumulate_ge(m, d) ==
    LET c == m.cum_dist + d
    IN  [m EXCEPT !.cum_dist = c,
                  !.is_too_far_away = IF c >= CUM_DIST_CUTOFF THEN TRUE ELSE @]

\* lines 55-57: add the date's distance, set the flag above the cutoff
Accumulate(m, d) ==
    LET c == m.cum_dist + d
    IN  [m EXCEPT !.cum_dist = c,
                  !.is_too_far_away = IF c > CUM_DIST_CUTOFF THEN TRUE ELSE @]

\* line 46 looking up a key that is never stored
InMatches_wrongkey(k) == <<k[1], 0>> \in DictKeys(matches)

\* line 46: (best_track, vortmax) in matches
InMatches(k) == k \in DictKeys(matches)

\* line 39 with the dict kept from the previous call
match_call_keep ==
    /\ pc = "start"
    /\ Len(outs) + 1 \in Runs
    /\ matches' = matches
    /\ run_base' = Len(heap)
    /\ cursor' = Norm(1, 1, 1)
    /\ pc' = "match"
    /\ UNCHANGED <<schedVars, dlVars, optVars, inputVars, heap, outs, combineVars>>

\* line 39 and the entry of the loops
match_call ==
    /\ pc = "start"
    /\ Len(outs) + 1 \in Runs
    /\ matches' = <<>>
    /\ run_base' = Len(heap)
    /\ cursor' = Norm(1, 1, 1)
    /\ pc' = "match"
    /\ UNCHANGED <<schedVars, dlVars, optVars, inputVars, heap, outs, combineVars>>

\* line 43 without the membership test: the lookup of line 44 raises KeyError
skip_date_raise ==
    /\ pc = "match"
    /\ ~AtEnd
    /\ cursor[3] = 0
    /\ pc' = "error"
    /\ err' = "KeyError"
    /\ UNCHANGED <<schedVars, dlVars, optVars, inputVars, matchVars, all_matches, combined_matches,
                   cm_cursor>>

\* line 43 false: the date is not a key of the index
skip_date ==
    /\ pc = "match"
    /\ ~AtEnd
    /\ cursor[3] = 0
    /\ cursor' = Norm(cursor[1], cursor[2] + 1, 1)
    /\ UNCHANGED <<schedVars, dlVars, optVars, inputVars, heap, matches, run_base, outs, combineVars, pc>>

\* lines 49-53 with the continue of line 53 taken: the creating visit adds
\* no distance
visit_create_continue ==
    /\ pc = "match"
    /\ AtVisit
    /\ ~InMatches(cur_key)
    /\ LET id == Len(heap) + 1
           m  == Match(cur_best, cur_vortmax)
       IN  /\ matches' = DictSet(matches, cur_key, id)
           /\ heap' = Append(heap, m)
    /\ cursor' = Norm(cursor[1], cursor[2], cursor[3] + 1)
    /\ UNCHANGED <<schedVars, dlVars, optVars, inputVars, run_base, outs, combineVars, pc>>

\* lines 49-57: first visit of the pair
visit_create ==
    /\ pc = "match"
    /\ AtVisit
    /\ ~InMatches(cur_key)
    /\ LET id == Len(heap) + 1
           m  == Match(cur_best, cur_vortmax)
       IN  /\ matches' = DictSet(matches, cur_key, id)
           /\ heap' = Append(heap, IF m.is_too_far_away THEN m
                                   ELSE Accumulate(m, cur_dist))
    /\ cursor' = Norm(cursor[1], cursor[2], cursor[3] + 1)
    /\ UNCHANGED <<schedVars, dlVars, optVars, inputVars, run_base, outs, combineVars, pc>>

\* lines 46-48, 55-57 with a diverged Match left alone
visit_update_gated ==
    /\ pc = "match"
    /\ AtVisit
    /\ InMatches(cur_key)
    /\ LET id == DictGet(matches, cur_key)
           m  == [heap[id] EXCEPT !.overlap = @ + 1]
       IN  heap' = IF heap[id].is_too_far_away THEN heap
                   ELSE [heap EXCEPT ![id] = Accumulate(m, cur_dist)]
    /\ cursor' = Norm(cursor[1], cursor[2], cursor[3] + 1)
    /\ UNCHANGED <<schedVars, dlVars, optVars, inputVars, matches, run_base, outs, combineVars, pc>>

\* lines 46-48, 55-57: later visit of the pair
visit_update ==
    /\ pc = "match"
    /\ AtVisit
    /\ InMatches(cur_key)
    /\ LET id == DictGet(matches, cur_key)
           m  == [heap[id] EXCEPT !.overlap = @ + 1]
       IN  heap' = [heap EXCEPT ![id] = Accumulate(m, cur_dist)]
    /\ cursor' = Norm(cursor[1], cursor[2], cursor[3] + 1)
    /\ UNCHANGED <<schedVars, dlVars, optVars, inputVars, matches, run_base, outs, combineVars, pc>>

\* line 59
match_return ==
    /\ pc = "match"
    /\ AtEnd
    /\ outs' = Append(outs, matches)
    /\ pc' = "start"
    /\ UNCHANGED <<schedVars, dlVars, optVars, inputVars, heap, matches, cursor, run_base, combineVars>>

\* ------------------------------------------------------------------ combined_match()
\* What iterating a collection yields: an OrderedDict yields its keys, the
\* (best_track, vortmax) tuples; a list of its values yields the Match objects.
\* An item names the entry it comes from by the entry's Match.
IterDict(d) == [i \in DOMAIN d |-> [kind |-> "tuple", id |-> d[i].value]]

Values(d) == [i \in DOMAIN d |-> [kind |-> "Match", id |-> d[i].value]]

\* lines 70-73 starting at the second best track
EmptyLists_skipfirst(bts) == [b \in DOMAIN bts \ {1} |-> <<>>]

\* lines 70-73: one empty list per best track
EmptyLists(bts) == [b \in DOMAIN bts |-> <<>>]

RECURSIVE NormCM(_, _, _)
\* The next item of the nested loops of combined_match() over am at or after
\* <<mi, ki>>, or the end <<Len(am) + 1, 0>>.
NormCM(am, mi, ki) ==
    IF mi > Len(am) THEN <<Len(am) + 1, 0>>
    ELSE IF ki > Len(am[mi]) THEN NormCM(am, mi + 1, 1)
    ELSE <<mi, ki>>

cm_item == all_matches[cm_cursor[1]][cm_cursor[2]]

CMAtEnd == cm_cursor[1] > Len(all_matches)

\* The call: the caller passes the outputs of match() as they are (OrderedDicts)
\* or as the lists of their values.
combined_match_call ==
    /\ pc = "start"
    /\ Len(outs) >= 1
    /\ \E form \in {"dict", "values"} :
         /\ all_matches' = [i \in DOMAIN outs |->
                              IF form = "dict" THEN IterDict(outs[i]) ELSE Values(outs[i])]
         /\ cm_cursor' = NormCM(all_matches', 1, 1)
    /\ combined_matches' = EmptyLists(best_tracks)
    /\ pc' = "combine"
    /\ UNCHANGED <<schedVars, dlVars, optVars, inputVars, matchVars, err>>

\* line 77 on a Match whose best track is a key
combine_append ==
    /\ pc = "combine"
    /\ ~CMAtEnd
    /\ cm_item.kind = "Match"
    /\ heap[cm_item.id].best_track \in DOMAIN combined_matches
    /\ combined_matches' =
         [combined_matches EXCEPT ![heap[cm_item.id].best_track] = Append(@, cm_item.id)]
    /\ cm_cursor' = NormCM(all_matches, cm_cursor[1], cm_cursor[2] + 1)
    /\ UNCHANGED <<schedVars, dlVars, optVars, inputVars, matchVars, all_matches, err, pc>>

\* line 77 raising: a tuple has no attribute best_track (AttributeError), a
\* best track that is no key of combined_matches is a KeyError
combine_raise ==
    /\ pc = "combine"
    /\ ~CMAtEnd
    /\ ~(cm_item.kind = "Match" /\ heap[cm_item.id].best_track \in DOMAIN combined_matches)
    /\ err' = IF cm_item.kind = "tuple" THEN "AttributeError" ELSE "KeyError"
    /\ pc' = "error"
    /\ UNCHANGED <<schedVars, dlVars, optVars, inputVars, matchVars, all_matches, combined_matches, cm_cursor>>

\* line 79
combined_match_return ==
    /\ pc = "combine"
    /\ CMAtEnd
    /\ pc' = "combined"
    /\ UNCHANGED <<schedVars, dlVars, optVars, inputVars, matchVars, combineVars>>

\* ------------------------------------------------------------------ specification
InitMatch ==
    /\ best_tracks \in {<<b1, b2>> : b1 \in BestTrackSet(1), b2 \in BestTrackSet(2)}
    /\ vort_tracks \in {<<v1, v2>> : v1 \in VortTrackSet, v2 \in VortTrackSet}
    /\ vort_tracks_by_date = IndexOf(vort_tracks)
    /\ heap = <<>>
    /\ matches = <<>>
    /\ cursor = <<0, 0, 0>>
    /\ run_base = 0
    /\ outs = <<>>
    /\ all_matches = <<>>
    /\ combined_matches = <<>>
    /\ cm_cursor = <<0, 0>>
    /\ err = "none"
    /\ pc = "start"
    /\ best_track = BestTrack(1, 1, 0)
    /\ vort_track = VortTrack(<<0, 0>>, 1, 0)
    /\ baseline_dist = 0
    /\ overlap = 0
    /\ min_d = 0
    /\ optimum_param = None
    /\ grid = <<0, 0>>
    /\ first_seen = <<>>
    /\ SchedIdle
    /\ DownloadIdle

NextMatch ==
    \/ match_call
    \/ skip_date
    \/ visit_create
    \/ visit_update
    \/ match_return
    \/ combined_match_call
    \/ combine_append
    \/ combine_raise
    \/ combined_match_return

SpecMatch == InitMatch /\ [][NextMatch]_vars

\* ------------------------------------------------------------------ _cum_dist()
RECURSIVE cum_dist_upto(_, _, _)
\* lines 84-92 over the first n observations of bt: <<d, overlap>>; a date
\* that is no key of vortmax_by_date raises inside the try and is passed over
cum_dist_upto(bt, vortmax_by_date, n) ==
    IF n = 0 THEN <<0, 0>>
    ELSE LET prev == cum_dist_upto(bt, vortmax_by_date, n - 1)
             date == bt.dates[n]
         IN  IF date \in DOMAIN vortmax_by_date
             THEN LET x == dist(vortmax_by_date[date], <<bt.lons[n], bt.lats[n]>>)
                  IN  <<prev[1] + x * x, prev[2] + 1>>
             ELSE prev

_cum_dist(bt, vortmax_by_date) == cum_dist_upto(bt, vortmax_by_date, Len(bt.dates))

\* ------------------------------------------------------------------ _optimize()
\* line 143: the raw positions of the candidate, in date order
RawPos(vt) == [i \in DOMAIN vt.dates |-> vt.vortmax_by_date[vt.dates[i]]]

\* RTSSmoother.process_data: a sequence of position estimates as long as the
\* observations.  The estimates drawn here are the observations themselves or
\* one of the points of VortPos at every step.
SmootherOutputs(pos) == {pos} \cup {[i \in DOMAIN pos |-> p] : p \in VortPos}

\* lines 167-173: the date -> estimate table built over the candidate's dates
PosDict(vt, est) == [d \in DOMAIN vt.vortmax_by_date |->
                       est[CHOOSE i \in DOMAIN vt.dates : vt.dates[i] = d]]

\* lines 178 and 188 accepting any non-empty overlap
OverlapGate_any(o) == o >= 1

\* lines 178 and 188: the minimum-overlap gate
OverlapGate(o) == o >= MIN_OVERLAP

\* lines 178 and 188 comparing by <=
Improves_le(new_d, m) == new_d <= m

\* lines 178 and 188: strictly below the running minimum
Improves(new_d, m) == new_d < m

\* The grid point after <<q, r>> in the nested loops of lines 161-162.
NextGrid(q, r) == IF r < Len(RParams) THEN <<q, r + 1>> ELSE <<q + 1, 1>>

GridDone == grid[1] > MaxQ

\* history: remember the first triple that computed each distance
Note(fs, d, triple) ==
    IF d \in DOMAIN fs THEN fs
    ELSE [x \in DOMAIN fs \cup {d} |-> IF x = d THEN triple ELSE fs[x]]

\* lines 141-159: baseline, running minimum, initial state of the smoother;
\* pos[0, 0] raises IndexError when the candidate has no vortmaxes
optimize_call ==
    /\ pc = "optimize"
    /\ LET cd == _cum_dist(best_track, vort_track.vortmax_by_date)
       IN  /\ baseline_dist' = cd[1]
           /\ overlap' = cd[2]
           /\ min_d' = cd[1]
    /\ optimum_param' = None
    /\ IF Len(RawPos(vort_track)) = 0
       THEN /\ pc' = "error"
            /\ err' = "IndexError"
            /\ grid' = grid
       ELSE /\ pc' = "grid"
            /\ err' = err
            /\ grid' = <<1, 1>>
    /\ UNCHANGED <<schedVars, dlVars, inputVars, matchVars, all_matches, combined_matches, cm_cursor,
                   best_track, vort_track, first_seen>>

\* lines 163-196 at one grid point
grid_point ==
    /\ pc = "grid"
    /\ ~GridDone
    /\ \E smoothed_pos \in SmootherOutputs(RawPos(vort_track)),
          filtered_pos \in SmootherOutputs(RawPos(vort_track)) :
         LET sm  == _cum_dist(best_track, PosDict(vort_track, smoothed_pos))
             fl  == _cum_dist(best_track, PosDict(vort_track, filtered_pos))
             smoothed_new_d == sm[1]
             filtered_new_d == fl[1]
             ov  == fl[2]
             hit1 == OverlapGate(ov) /\ Improves(smoothed_new_d, min_d)
             min1 == IF hit1 THEN smoothed_new_d ELSE min_d
             q_param == grid[1]
             r_param == RParams[grid[2]]
             opt1 == IF hit1 THEN <<q_param, r_param, "smoothed">> ELSE optimum_param
             hit2 == OverlapGate(ov) /\ Improves(filtered_new_d, min1)
         IN  /\ overlap' = ov
             /\ min_d' = IF hit2 THEN filtered_new_d ELSE min1
             /\ optimum_param' = IF hit2 THEN <<q_param, r_param, "filtered">> ELSE opt1
             /\ first_seen' = Note(Note(first_seen, smoothed_new_d,
                                        <<q_param, r_param, "smoothed">>),
                                   filtered_new_d, <<q_param, r_param, "filtered">>)
    /\ grid' = NextGrid(grid[1], grid[2])
    /\ pc' = IF NextGrid(grid[1], grid[2])[1] > MaxQ THEN "exhausted" ELSE "grid"
    /\ UNCHANGED <<schedVars, dlVars, inputVars, matchVars, combineVars, best_track, vort_track,
                   baseline_dist>>

\* line 163 raising: process_data fails on a singular covariance and
\* _optimize has no handler around the call
grid_raise ==
    /\ pc = "grid"
    /\ ~GridDone
    /\ pc' = "error"
    /\ err' = "LinAlgError"
    /\ UNCHANGED <<schedVars, dlVars, inputVars, matchVars, all_matches, combined_matches, cm_cursor,
                   optVars>>

\* line 198: min_d / baseline_dist.  A baseline of 0 over no shared date is
\* the integer 0 and the division raises; a baseline of 0.0 summed from
\* distances raises or yields nan, as the number type dist returns decides.
optimize_finish ==
    /\ pc = "exhausted"
    /\ \E raises \in {b \in BOOLEAN : IF baseline_dist # 0 THEN b = FALSE
                                     ELSE (overlap = 0 => b = TRUE)} :
         /\ pc' = IF raises THEN "error" ELSE "done"
         /\ err' = IF raises THEN "ZeroDivisionError" ELSE err
    /\ UNCHANGED <<schedVars, dlVars, inputVars, matchVars, all_matches, combined_matches, cm_cursor,
                   optVars>>

InitOpt ==
    /\ best_tracks = <<>>
    /\ vort_tracks = <<>>
    /\ vort_tracks_by_date = <<>>
    /\ heap = <<>>
    /\ matches = <<>>
    /\ cursor = <<0, 0, 0>>
    /\ run_base = 0
    /\ outs = <<>>
    /\ all_matches = <<>>
    /\ combined_matches = <<>>
    /\ cm_cursor = <<0, 0>>
    /\ err = "none"
    /\ pc = "optimize"
    /\ best_track \in {BestTrack(1, 1, e) : e \in {0, 1, MaxOptDate}}
    /\ vort_track \in {VortTrack(p, s, MaxOptDate) : p \in VortPos, s \in 1..(MaxOptDate + 1)}
    /\ baseline_dist = 0
    /\ overlap = 0
    /\ min_d = 0
    /\ optimum_param = None
    /\ grid = <<0, 0>>
    /\ first_seen = <<>>
    /\ SchedIdle
    /\ DownloadIdle

NextOpt ==
    \/ optimize_call
    \/ grid_point
    \/ grid_raise
    \/ optimize_finish

SpecOpt == InitOpt /\ [][NextOpt]_vars

\* ------------------------------------------------------------------ pyro_task.py
STATUSES == {"outstanding", "working", "complete", "failure", "timeout"}

\* a status that is no key of STATUSES
UnknownStatus == "unknown"

end_year == start_year + 1

Years == start_year..end_year

num_ensemble_members == Len(EnsembleMembers)

\* PyroTask.status setter: the new value of _status, and whether it raised
status_setter_unchecked(old, value) ==
    [status |-> value, raised |-> FALSE]

status_setter(old, value) ==
    IF value \notin STATUSES
    THEN [status |-> old, raised |-> TRUE]
    ELSE [status |-> value, raised |-> FALSE]

\* PyroTaskSchedule.__init__: one task per year and member, all outstanding
NewSchedule ==
    [year \in Years |->
        [i \in 1..num_ensemble_members |-> status_setter(None, "outstanding").status]]

\* self._schedule[year][em].status = value
SetInSchedule(sch, year, em, value) ==
    [sch EXCEPT ![year][em + 1] = value]

\* the loops of get_next_outstanding, from (year, i) on; a task is returned
\* as the pair <<year, ensemble_member>>
RECURSIVE ScanOutstanding(_, _, _)
ScanOutstanding(sch, year, i) ==
    IF year > end_year THEN None
    ELSE IF i > num_ensemble_members THEN ScanOutstanding(sch, year + 1, 1)
    ELSE IF sch[year][i] = "outstanding" THEN <<year, EnsembleMembers[i]>>
    ELSE ScanOutstanding(sch, year, i + 1)

get_next_outstanding_marks ==
    /\ pc = "schedule"
    /\ next_task' = ScanOutstanding(_schedule, start_year, 1)
    /\ _schedule' = IF next_task' = None THEN _schedule
                    ELSE SetInSchedule(_schedule, next_task'[1], next_task'[2], "working")
    /\ last_call' = [op |-> "get_next_outstanding",
                     repeat |-> last_call.op = "get_next_outstanding"]
    /\ UNCHANGED <<dlVars, optVars, inputVars, matchVars, combineVars, pc>>

get_next_outstanding ==
    /\ pc = "schedule"
    /\ next_task' = ScanOutstanding(_schedule, start_year, 1)
    /\ last_call' = [op |-> "get_next_outstanding",
                     repeat |-> last_call.op = "get_next_outstanding"]
    /\ UNCHANGED <<_schedule, dlVars, optVars, inputVars, matchVars, combineVars, pc>>

\* update_task_status(task), task a PyroTask of the schedule's years and
\* members whose status went through the setter
update_task_status ==
    /\ pc = "schedule"
    /\ \E year \in Years, i \in 1..num_ensemble_members, value \in STATUSES :
          LET em == EnsembleMembers[i]
              r  == status_setter(_schedule[year][em + 1], value)
          IN  /\ _schedule' = SetInSchedule(_schedule, year, em, r.status)
              /\ last_call' = [op |-> "update_task_status", year |-> year,
                               em |-> em, value |-> value, raised |-> r.raised]
    /\ UNCHANGED <<next_task, dlVars, optVars, inputVars, matchVars, combineVars, pc>>

\* task.status = value on a task handed out by the schedule
set_status ==
    /\ pc = "schedule"
    /\ \E year \in Years, i \in 1..num_ensemble_members,
          value \in STATUSES \cup {UnknownStatus} :
          LET em == EnsembleMembers[i]
              r  == status_setter(_schedule[year][em + 1], value)
          IN  /\ _schedule' = SetInSchedule(_schedule, year, em, r.status)
              /\ last_call' = [op |-> "set_status", year |-> year,
                               em |-> em, value |-> value, raised |-> r.raised]
    /\ UNCHANGED <<next_task, dlVars, optVars, inputVars, matchVars, combineVars, pc>>

InitSched ==
    /\ MatchIdle
    /\ OptIdle
    /\ DownloadIdle
    /\ err = "none"
    /\ pc = "schedule"
    /\ _schedule = NewSchedule
    /\ next_task = None
    /\ last_call = [op |-> "none"]

NextSched ==
    \/ get_next_outstanding
    \/ update_task_status
    \/ set_status

SpecSched == InitSched /\ [][NextSched]_vars

\* ------------------------------------------------------------------ download.py
\* the basenames of the urls of download_full_c20, in the order of the list
FullUrls == <<"u850", "v850", "u250", "v250", "prmsl">>

\* the year's data directory and the year's temporary directory
Dirs == {"data", "tmp"}

Files == {FullUrls[i] : i \in DOMAIN FullUrls}

\* the file systems a call can start from: files lie in existing directories
FileSystems ==
    {fsys \in [dirs : SUBSET Dirs, files : SUBSET (Dirs \X Files)] :
        \A p \in fsys.files : p[1] \in fsys.dirs}

\* os.makedirs(d) unless os.path.exists(d)
MakeDirs(fsys, d) ==
    [fsys EXCEPT !.dirs = @ \cup {d}]

\* _download_file(url, output_dir, tmp_output_dir): the file system after the
\* call, the path handed to urlretrieve (None when it is not called), the
\* path returned and whether urlretrieve raised; ok tells whether the
\* transfer succeeds. An unset temporary directory is the empty string.
_download_file_notmp(fsys, url, output_dir, tmp_output_dir, ok) ==
    LET path     == <<output_dir, url>>
        tmp_path == IF tmp_output_dir # "" THEN <<tmp_output_dir, url>> ELSE None
        target   == IF tmp_path # None THEN tmp_path ELSE path
    IN  IF path \in fsys.files
        THEN [fs |-> fsys, retrieved |-> None, returned |-> path, raised |-> FALSE]
        ELSE IF ~ok \/ target[1] \notin fsys.dirs
        THEN [fs |-> fsys, retrieved |-> target, returned |-> None, raised |-> TRUE]
        ELSE [fs |-> [fsys EXCEPT !.files = @ \cup {target}],
              retrieved |-> target, returned |-> path, raised |-> FALSE]

_download_file(fsys, url, output_dir, tmp_output_dir, ok) ==
    LET path     == <<output_dir, url>>
        tmp_path == IF tmp_output_dir # "" THEN <<tmp_output_dir, url>> ELSE None
        target   == IF tmp_path # None THEN tmp_path ELSE path
    IN  IF path \in fsys.files
        THEN [fs |-> fsys, retrieved |-> None, returned |-> path, raised |-> FALSE]
        ELSE IF tmp_path # None /\ tmp_path \in fsys.files
        THEN [fs |-> fsys, retrieved |-> None, returned |-> path, raised |-> FALSE]
        ELSE IF ~ok \/ target[1] \notin fsys.dirs
        THEN [fs |-> fsys, retrieved |-> target, returned |-> None, raised |-> TRUE]
        ELSE [fs |-> [fsys EXCEPT !.files = @ \cup {target}],
              retrieved |-> target, returned |-> path, raised |-> FALSE]

\* what dl_last keeps of a call
CallRecord(url, output_dir, tmp_output_dir, r) ==
    [url |-> url, output_dir |-> output_dir, tmp_output_dir |-> tmp_output_dir,
     retrieved |-> r.retrieved, returned |-> r.returned, raised |-> r.raised]

\* a call of _download_file on its own
download_file_call ==
    /\ pc = "dl_idle"
    /\ \E url \in Files, output_dir \in Dirs, tmp_output_dir \in Dirs \cup {""},
          ok \in BOOLEAN :
          LET r == _download_file(filesys, url, output_dir, tmp_output_dir, ok)
          IN  /\ filesys' = r.fs
              /\ dl_last' = CallRecord(url, output_dir, tmp_output_dir, r)
              /\ pc' = IF r.raised THEN "error" ELSE "returned"
              /\ err' = IF r.raised THEN "IOError" ELSE err
    /\ UNCHANGED <<TMP_DATA_DIR, dl_idx, dl_retrieved, schedVars, optVars,
                   inputVars, matchVars, all_matches, combined_matches, cm_cursor>>

\* the directory download_full_c20 gives as tmp_output_dir
tmp_data_dir == IF TMP_DATA_DIR # "" THEN TMP_DATA_DIR ELSE "data"

\* download_full_c20(year), up to the loop over the urls
download_full_c20_call ==
    /\ pc = "dl_idle"
    /\ filesys' = MakeDirs(filesys, tmp_data_dir)
    /\ dl_idx' = 0
    /\ dl_retrieved' = {}
    /\ pc' = "full_loop"
    /\ UNCHANGED <<TMP_DATA_DIR, dl_last, schedVars, optVars, inputVars,
                   matchVars, combineVars>>

\* one turn of the loop over the urls
full_download_file ==
    /\ pc = "full_loop"
    /\ dl_idx < Len(FullUrls)
    /\ \E ok \in BOOLEAN :
          LET url == FullUrls[dl_idx + 1]
              r   == _download_file(filesys, url, "data", tmp_data_dir, ok)
          IN  /\ filesys' = r.fs
              /\ dl_last' = CallRecord(url, "data", tmp_data_dir, r)
              /\ dl_retrieved' = IF r.retrieved # None /\ ~r.raised
                                 THEN dl_retrieved \cup {r.retrieved}
                                 ELSE dl_retrieved
              /\ dl_idx' = IF r.raised THEN dl_idx ELSE dl_idx + 1
              /\ pc' = IF r.raised THEN "error" ELSE "full_loop"
              /\ err' = IF r.raised THEN "IOError" ELSE err
    /\ UNCHANGED <<TMP_DATA_DIR, schedVars, optVars, inputVars, matchVars,
                   all_matches, combined_matches, cm_cursor>>

\* after the loop: the files of the temporary directory are copied to the
\* data directory unless present there, and the temporary directory is removed
full_finish ==
    /\ pc = "full_loop"
    /\ dl_idx = Len(FullUrls)
    /\ filesys' =
          IF TMP_DATA_DIR # ""
          THEN LET made   == MakeDirs(filesys, "data")
                   copied == {<<"data", p[2]>> : p \in {x \in made.files : x[1] = tmp_data_dir}}
               IN  [dirs  |-> made.dirs \ {tmp_data_dir},
                    files |-> {x \in made.files \cup copied : x[1] # tmp_data_dir}]
          ELSE filesys
    /\ pc' = "full_done"
    /\ UNCHANGED <<TMP_DATA_DIR, dl_idx, dl_last, dl_retrieved, schedVars,
                   optVars, inputVars, matchVars, combineVars>>

\* download_mean_c20(year): line 75 binds data_dir_tpl, line 76 reads data_dir,
\* which is bound neither in the function nor in the module
download_mean_c20 ==
    /\ pc = "dl_idle"
    /\ pc' = "error"
    /\ err' = "NameError"
    /\ UNCHANGED <<dlVars, schedVars, optVars, inputVars, matchVars, all_matches, combined_matches, cm_cursor>>

InitDownload ==
    /\ MatchIdle
    /\ OptIdle
    /\ SchedIdle
    /\ err = "none"
    /\ pc = "dl_idle"
    /\ TMP_DATA_DIR \in {"", "tmp"}
    /\ filesys \in FileSystems
    /\ dl_idx = 0
    /\ dl_last = [url |-> "none"]
    /\ dl_retrieved = {}

NextDownload ==
    \/ download_file_call
    \/ download_full_c20_call
    \/ full_download_file
    \/ full_finish
    \/ download_mean_c20

SpecDownload == InitDownload /\ [][NextDownload]_vars

\* ------------------------------------------------------------------ expected values
\* The distances of the visits that the observation oi of best track b makes
\* to candidate v among the first jmax entries of that date's list, in order.
ObsDists(b, v, oi, jmax) ==
    LET date == best_tracks[b].dates[oi]
    IN  IF date \notin DOMAIN vort_tracks_by_date THEN <<>>
        ELSE LET L    == vort_tracks_by_date[date]
                 hits == SelectSeq(Range(1, Min2(jmax, Len(L))), LAMBDA j : L[j] = v)
             IN  [k \in DOMAIN hits |->
                    dist(vort_tracks[v].vortmax_by_date[date],
                         <<best_tracks[b].lons[oi], best_tracks[b].lats[oi]>>)]

RECURSIVE TrackDists(_, _, _)
\* The distances of the visits of the first n observations of b to v.
TrackDists(b, v, n) ==
    IF n = 0 THEN <<>>
    ELSE TrackDists(b, v, n - 1) \o ObsDists(b, v, n, MaxDate * Cardinality(VortIds))

\* The distances of all the visits one run of match() makes to the pair.
VisitDists(b, v) == TrackDists(b, v, Len(best_tracks[b].dates))

\* The distances of the visits the current run has made to the pair so far.
SeenDists(b, v) ==
    IF b < cursor[1] THEN VisitDists(b, v)
    ELSE IF b > cursor[1] THEN <<>>
    ELSE TrackDists(b, v, cursor[2] - 1) \o ObsDists(b, v, cursor[2], cursor[3] - 1)

RECURSIVE SumSeq(_)
SumSeq(q) == IF q = <<>> THEN 0 ELSE q[1] + SumSeq(Tail(q))

\* The Match objects constructed by the current run for the pair.
RunObjects(b, v) ==
    {id \in (run_base + 1)..Len(heap) :
        heap[id].best_track = b /\ heap[id].vort_track = v}

\* The entries of every OrderedDict that match() has returned.
Returned == UNION {{outs[r][i] : i \in DOMAIN outs[r]} : r \in DOMAIN outs}

\* ------------------------------------------------------------------ claims
\* C1: in a run of match() at most one Match object is constructed per
\* (best_track, vort_track) pair; the pair is a key of matches exactly when it
\* has been visited, and the key holds that one object.
C1_OneMatchPerPair ==
    \A b \in BestIds, v \in VortIds :
        /\ Cardinality(RunObjects(b, v)) <= 1
        /\ (<<b, v>> \in DictKeys(matches)) <=> (SeenDists(b, v) # <<>>)
        /\ <<b, v>> \in DictKeys(matches) =>
              RunObjects(b, v) = {DictGet(matches, <<b, v>>)}

\* a pair visited twice in one run, held by the object of its first visit
C1_Witness ==
    \E b \in BestIds, v \in VortIds :
        /\ Len(SeenDists(b, v)) >= 2
        /\ RunObjects(b, v) = {DictGet(matches, <<b, v>>)}

\* C2: when match() has returned, the overlap of every Match equals the
\* number of visits of its pair (the creating visit included).
C2_OverlapCountsVisits ==
    pc = "start" =>
        \A e \in Returned :
            heap[e.value].overlap = Len(VisitDists(e.key[1], e.key[2]))

\* a returned Match of a pair visited twice
C2_Witness ==
    \E e \in Returned :
        /\ Len(VisitDists(e.key[1], e.key[2])) = 2
        /\ heap[e.value].overlap = 2

\* C3: when match() has returned, the cum_dist of every Match is the sum of
\* the distances of all the visits of its pair, the first included.
C3_CumDistSumsVisits ==
    pc = "start" =>
        \A e \in Returned :
            heap[e.value].cum_dist = SumSeq(VisitDists(e.key[1], e.key[2]))

\* a returned Match of a pair visited twice, both visits at a distance
C3_Witness ==
    \E e \in Returned :
        LET ds == VisitDists(e.key[1], e.key[2])
        IN  /\ Len(ds) = 2
            /\ ds[1] > 0
            /\ ds[2] > 0
            /\ ds[1] # ds[2]
            /\ heap[e.value].cum_dist = ds[1] + ds[2]

\* C4: after every visit the flag is_too_far_away of a Match is set exactly
\* when its cum_dist is greater than CUM_DIST_CUTOFF.
C4_FlagIffAboveCutoff ==
    \A id \in DOMAIN heap :
        heap[id].is_too_far_away <=> (heap[id].cum_dist > CUM_DIST_CUTOFF)

\* one shared date at distance 200: overlap 1, cum_dist 200, flag set; and a
\* Match whose total is exactly the cutoff, flag not set
C4_Witness ==
    /\ \E id \in DOMAIN heap :
          /\ heap[id].overlap = 1
          /\ heap[id].cum_dist = 200
          /\ heap[id].is_too_far_away
    /\ \E id \in DOMAIN heap :
          /\ heap[id].cum_dist = CUM_DIST_CUTOFF
          /\ ~heap[id].is_too_far_away

\* C5: a visit of a pair whose Match is already flagged is_too_far_away still
\* increments overlap by 1 and still adds the date's distance to cum_dist.
C5_FlagIsAdvisory ==
    [][(pc = "match" /\ AtVisit /\ InMatches(cur_key)
          /\ heap[DictGet(matches, cur_key)].is_too_far_away)
       => LET id == DictGet(matches, cur_key)
          IN  /\ heap'[id].overlap = heap[id].overlap + 1
              /\ heap'[id].cum_dist = heap[id].cum_dist + cur_dist
              /\ cursor' # cursor]_vars

\* a Match that was flagged by its first visit and has been visited again
C5_Witness ==
    \E id \in DOMAIN heap :
        LET ds == VisitDists(heap[id].best_track, heap[id].vort_track)
        IN  /\ heap[id].overlap = 2
            /\ ds[1] > CUM_DIST_CUTOFF
            /\ ds[2] > 0
            /\ heap[id].cum_dist = ds[1] + ds[2]

\* The Match objects of the lists of combined_matches, flattened.
RECURSIVE Flatten(_, _)
Flatten(cm, n) == IF n = 0 THEN <<>> ELSE Flatten(cm, n - 1) \o cm[n]

\* combined_match() was handed the OrderedDicts returned by match()
GivenDicts == all_matches = [i \in DOMAIN outs |-> IterDict(outs[i])]

\* C6: combined_match, given the OrderedDicts returned by match(), ends
\* without an error and its lists hold exactly one entry per returned Match,
\* each under the key of its best_track.
C6_CombinedHoldsEveryMatch ==
    (pc \in {"combined", "error"} /\ GivenDicts) =>
        /\ pc = "combined"
        /\ err = "none"
        /\ \A e \in Returned :
              Len(SelectSeq(combined_matches[heap[e.value].best_track],
                            LAMBDA id : id = e.value)) = 1
        /\ Len(Flatten(combined_matches, Len(best_tracks))) = Cardinality(Returned)

\* C7: in the mapping returned by combined_match every best track is a key,
\* and a best track without a Match in the collections maps to an empty list.
C7_EveryBestTrackIsKey ==
    pc = "combined" =>
        /\ DOMAIN combined_matches = DOMAIN best_tracks
        /\ \A b \in DOMAIN best_tracks :
              (\A m \in DOMAIN all_matches : \A k \in DOMAIN all_matches[m] :
                   heap[all_matches[m][k].id].best_track # b)
              => combined_matches[b] = <<>>

\* a returned mapping in which one best track has Matches and another has none
C7_Witness ==
    /\ pc = "combined"
    /\ \E b \in DOMAIN best_tracks : combined_matches[b] = <<>>
    /\ \E b \in DOMAIN best_tracks : combined_matches[b] # <<>>

\* The number of observations of the best track whose date the candidate covers.
SharedDates ==
    Cardinality({i \in DOMAIN best_track.dates :
                    best_track.dates[i] \in DOMAIN vort_track.vortmax_by_date})

MinOf(S) == CHOOSE x \in S : \A y \in S : x <= y

\* C8: _optimize records an optimum only at a recomputed overlap of at least
\* MIN_OVERLAP; when the tracks share fewer dates, optimum_param stays None
\* and the running minimum stays the baseline up to the end of the grid.
C8_NoOptimumBelowMinOverlap ==
    pc \in {"grid", "exhausted", "done", "error"} =>
        /\ optimum_param # None => overlap >= MIN_OVERLAP
        /\ SharedDates < MIN_OVERLAP =>
              (optimum_param = None /\ min_d = baseline_dist)

\* the grid is exhausted over tracks sharing 1 to 5 dates, some grid point
\* having computed a distance below the baseline
C8_Witness ==
    /\ pc = "exhausted"
    /\ SharedDates \in 1..(MIN_OVERLAP - 1)
    /\ \E d \in DOMAIN first_seen : d < baseline_dist
    /\ optimum_param = None
    /\ min_d = baseline_dist

\* C9: when the grid is exhausted with overlap at least MIN_OVERLAP, min_d is
\* the least of the baseline and all the distances computed, optimum_param is
\* None exactly when no computed distance is below the baseline, and otherwise
\* it is the first triple, in iteration order with smoothed before filtered,
\* that computed that least distance.
C9_MinimumAndOptimum ==
    (pc = "exhausted" /\ overlap >= MIN_OVERLAP) =>
        LET computed == DOMAIN first_seen
        IN  /\ min_d = MinOf(computed \cup {baseline_dist})
            /\ (optimum_param = None) <=> (\A d \in computed : d >= baseline_dist)
            /\ optimum_param # None => optimum_param = first_seen[min_d]

\* the optimum is the filtered estimate of the last grid point, after an
\* earlier grid point had already improved on the baseline
C9_Witness ==
    /\ pc = "exhausted"
    /\ overlap >= MIN_OVERLAP
    /\ optimum_param = <<MaxQ, RParams[Len(RParams)], "filtered">>
    /\ \E d \in DOMAIN first_seen :
          /\ d < baseline_dist
          /\ d > min_d
          /\ first_seen[d][1] = 1

\* C10: a failure of the smoother at a grid point does not end the search:
\* the grid point is skipped and the search goes on.
C10_SmootherFailureIsSkipped ==
    err = "LinAlgError" => pc \in {"grid", "exhausted", "done"}

\* C11: match() given a best track with zero observations, or a candidate
\* with zero observations in its index, does not return normally.
C11_EmptyTrackFailsFast ==
    (\/ \E b \in DOMAIN best_tracks : Len(best_tracks[b].dates) = 0
     \/ \E d \in DOMAIN vort_tracks_by_date :
           \E j \in DOMAIN vort_tracks_by_date[d] :
              Len(vort_tracks[vort_tracks_by_date[d][j]].dates) = 0)
    => Len(outs) = 0

\* C12: the parameter search over a pair that shares no date (baseline
\* distance 0, overlap 0) ends without an error once the grid is exhausted.
C12_NoSharedDateCompletes ==
    (SharedDates = 0 /\ GridDone /\ pc \in {"done", "error"}) => pc = "done"

\* The pair co-occurs: some date of best track b is a key of the index whose
\* list contains candidate v.
CoOccur(b, v) ==
    \E i \in DOMAIN best_tracks[b].dates :
        LET date == best_tracks[b].dates[i]
        IN  /\ date \in DOMAIN vort_tracks_by_date
            /\ \E j \in DOMAIN vort_tracks_by_date[date] :
                  vort_tracks_by_date[date][j] = v

\* C13: match() returns a Match for exactly the pairs that co-occur, each
\* pair with a Match object of its own; a best-track date that is no key of
\* the index is passed over without an error and without changing any Match.
C13_MatchIffCoOccur ==
    [][/\ (pc = "match" /\ pc' = "start") =>
             /\ DictKeys(matches) =
                   {k \in BestIds \X VortIds : CoOccur(k[1], k[2])}
             /\ \A i, j \in DOMAIN matches :
                   matches[i].value = matches[j].value => i = j
             /\ outs' = Append(outs, matches)
       /\ (pc = "match" /\ ~AtEnd /\ cursor[3] = 0) =>
             /\ pc' = "match"
             /\ err' = err
             /\ heap' = heap
             /\ matches' = matches]_vars

\* match() has returned two Matches of one best track, both candidates on one
\* date, another date of that best track being no key of the index
C13_Witness ==
    /\ pc = "start"
    /\ Len(outs) >= 1
    /\ \E b \in BestIds :
          /\ {<<b, v>> : v \in VortIds} \subseteq DictKeys(outs[1])
          /\ DictGet(outs[1], <<b, 1>>) # DictGet(outs[1], <<b, 2>>)
          /\ \E i \in DOMAIN best_tracks[b].dates :
                best_tracks[b].dates[i] \notin DOMAIN vort_tracks_by_date

\* C14: the cum_dist of a Match never decreases from one step to the next.
C14_CumDistNeverDecreases ==
    [][\A id \in DOMAIN heap :
          /\ id \in DOMAIN heap'
          /\ heap'[id].cum_dist >= heap[id].cum_dist]_vars

\* a Match visited twice whose second visit added a distance
C14_Witness ==
    \E id \in DOMAIN heap :
        LET ds == VisitDists(heap[id].best_track, heap[id].vort_track)
        IN  /\ heap[id].overlap = 2
            /\ ds[1] > 0
            /\ heap[id].cum_dist > ds[1]

\* C15: two runs of match() on the same inputs return the same keys in the
\* same order and, key by key, Match objects of their own with the same
\* cum_dist, overlap and is_too_far_away.
C15_SecondRunSameResult ==
    Len(outs) >= 2 =>
        /\ Len(outs[1]) = Len(outs[2])
        /\ \A i \in DOMAIN outs[1] :
              LET m1 == heap[outs[1][i].value]
                  m2 == heap[outs[2][i].value]
              IN  /\ outs[1][i].key = outs[2][i].key
                  /\ outs[1][i].value # outs[2][i].value
                  /\ m1.cum_dist = m2.cum_dist
                  /\ m1.overlap = m2.overlap
                  /\ m1.is_too_far_away = m2.is_too_far_away

\* two runs have returned, with a Match visited twice and flagged
C15_Witness ==
    /\ Len(outs) = 2
    /\ \E i \in DOMAIN outs[2] :
          /\ heap[outs[2][i].value].overlap = 2
          /\ heap[outs[2][i].value].is_too_far_away

\* C16: every Match object, in every state of match() and after it, has
\* overlap >= 1.
C16_OverlapAtLeastOne ==
    \A id \in DOMAIN heap : heap[id].overlap >= 1

\* match() is under way and holds a Match just created, with overlap 1
C16_Witness ==
    /\ pc = "match"
    /\ ~AtEnd
    /\ \E id \in RunObjects(cur_best, 1) : heap[id].overlap = 1

\* the tasks of a schedule that are outstanding, as <<year, member>> pairs
OutstandingTasks(sch) ==
    {t \in Years \X {EnsembleMembers[i] : i \in DOMAIN EnsembleMembers} : sch[t[1]][t[2] + 1] = "outstanding"}

\* (year ascending, ensemble member ascending)
TaskBefore(a, b) ==
    a[1] < b[1] \/ (a[1] = b[1] /\ a[2] <= b[2])

\* C17: get_next_outstanding returns the outstanding task that is first by
\* year, then by ensemble member, and None exactly when no task is
\* outstanding; the call changes no status, and a call that directly follows
\* another call returns the same task.
C17_NextOutstandingIsFirst ==
    [][last_call'.op = "get_next_outstanding" =>
          /\ _schedule' = _schedule
          /\ (next_task' = None) <=> (OutstandingTasks(_schedule) = {})
          /\ next_task' # None =>
                /\ next_task' \in OutstandingTasks(_schedule)
                /\ \A t \in OutstandingTasks(_schedule) : TaskBefore(next_task', t)
          /\ last_call'.repeat => next_task' = next_task]_vars

\* after status updates, a second call in a row has returned the last task of
\* the schedule while an earlier task is no longer outstanding
C17_Witness ==
    /\ last_call.op = "get_next_outstanding"
    /\ last_call.repeat
    /\ next_task = <<end_year, EnsembleMembers[num_ensemble_members]>>
    /\ _schedule[start_year][1] = "failure"

\* the addressed task of an update or a set
Addressed(call) == <<call.year, call.em>>

\* C18: every task's status is a key of STATUSES, outstanding at first;
\* setting another status raises and leaves the status as it was;
\* update_task_status changes the addressed task only and keeps the number
\* of tasks.
C18_StatusesStayValid ==
    /\ [](pc = "schedule" =>
            /\ \A year \in DOMAIN _schedule : \A i \in DOMAIN _schedule[year] :
                  _schedule[year][i] \in STATUSES
            /\ last_call.op = "none" =>
                  \A year \in DOMAIN _schedule : \A i \in DOMAIN _schedule[year] :
                     _schedule[year][i] = "outstanding")
    /\ [][/\ (last_call'.op \in {"set_status", "update_task_status"}
                /\ last_call'.value \notin STATUSES) =>
                /\ last_call'.raised
                /\ _schedule' = _schedule
          /\ (last_call'.op \in {"set_status", "update_task_status"}) =>
                /\ DOMAIN _schedule' = DOMAIN _schedule
                /\ \A year \in DOMAIN _schedule :
                      /\ DOMAIN _schedule'[year] = DOMAIN _schedule[year]
                      /\ \A i \in DOMAIN _schedule[year] :
                            <<year, i - 1>> # Addressed(last_call') =>
                               _schedule'[year][i] = _schedule[year][i]
                /\ last_call'.value \in STATUSES =>
                      /\ ~last_call'.raised
                      /\ _schedule'[last_call'.year][last_call'.em + 1]
                            = last_call'.value]_vars

\* an unknown status was refused on a task that is working, while another
\* task has been updated to complete
C18_Witness ==
    /\ last_call.op = "set_status"
    /\ last_call.value \notin STATUSES
    /\ last_call.raised
    /\ _schedule[last_call.year][last_call.em + 1] = "working"
    /\ \E year \in Years, i \in 1..num_ensemble_members :
          /\ <<year, i - 1>> # Addressed(last_call)
          /\ _schedule[year][i] = "complete"

\* a step in which _download_file was called
DownloadStep ==
    dl_last' # dl_last \/ dl_idx' = dl_idx + 1

C20_MeanDownloadCompletes ==
    ~(pc = "error" /\ err = "NameError")

====
